---- MODULE Spec2Model ----
(***************************************************************************)
(* A model of utfq (src/src/main.rs): the agmd annotation grammar          *)
(* (parse_agmd), the date-range query grammar (parse_date_range), the      *)
(* interval intersection predicate (filter_agmd_intersection), the         *)
(* Display form of a VTodo and the stack-based markdown task extractor     *)
(* (parse_markdown).                                                       *)
(*                                                                         *)
(* Conventions.  A Rust String / &str is a sequence of one-character       *)
(* strings.  Option<T> is a sequence of length at most one: None is <<>>   *)
(* and Some(x) is <<x>>.  A NaiveDate is a record [year, month, day].  A   *)
(* function that can panic returns a record [panicked, value].             *)
(***************************************************************************)
EXTENDS Integers, Sequences, FiniteSets

VARIABLES
    \* parse_markdown: the explicit stack, the output vector, the position
    stack, vtasks, pc,
    \* the tokenizer's side of parse_markdown: the open elements of the
    \* document, the numbers of items started and of content events
    \* produced so far, the item each output record came from, and per item
    \* what the document gave it
    doc, nitems, nevents, origin, seen,
    \* parse_agmd and the Display form: input body, outcome, record, rendering
    raw, parsed, vtodo, shown,
    \* parse_date_range: the command-line argument and the outcome
    arg, date_range,
    \* filter_agmd_intersection: today, the query, the schedule, the outcome
    today, query, agmd, has_intersection

vars == <<stack, vtasks, pc, doc, nitems, nevents, origin, seen,
          raw, parsed, vtodo, shown, arg, date_range,
          today, query, agmd, has_intersection>>

extractorVars == <<stack, vtasks, pc, doc, nitems, nevents, origin, seen>>
agmdVars == <<raw, parsed, vtodo, shown>>
queryVars == <<arg, date_range>>
filterVars == <<today, query, agmd, has_intersection>>

----------------------------------------------------------------------------
(* Option and strings *)

None == <<>>
Some(x) == <<x>>
IsSome(o) == Len(o) = 1
Unwrap(o) == o[1]

\* A character is a string: an ASCII character is written as itself, a
\* character beyond ASCII by the name of its code point ("U+00E9").  A Rust
\* string is the sequence of its characters.

Digits == <<"0", "1", "2", "3", "4", "5", "6", "7", "8", "9">>

\* char::to_digit(10), the digits str::parse reads
IsAsciiDigit(c) == \E k \in 1..10 : Digits[k] = c

\* decimal digits beyond ASCII (general category Nd), of which Unicode has
\* several hundred: ARABIC-INDIC DIGIT THREE and FULLWIDTH DIGIT THREE stand
\* for them
OtherDigits == {"U+0663", "U+FF13"}

\* \d of the regex crate: Unicode-aware, any decimal digit
IsDigit(c) == IsAsciiDigit(c) \/ c \in OtherDigits

DigitVal(c) == (CHOOSE k \in 1..10 : Digits[k] = c) - 1

AsciiLetters ==
    {"a", "b", "c", "d", "e", "f", "g", "h", "i", "j", "k", "l", "m",
     "n", "o", "p", "q", "r", "s", "t", "u", "v", "w", "x", "y", "z",
     "A", "B", "C", "D", "E", "F", "G", "H", "I", "J", "K", "L", "M",
     "N", "O", "P", "Q", "R", "S", "T", "U", "V", "W", "X", "Y", "Z"}

\* word characters beyond ASCII that are no digits, of which Unicode has many
\* thousands: LATIN SMALL LETTER E WITH ACUTE and the CJK ideograph U+4EFB
\* stand for them
OtherWordChars == {"U+00E9", "U+4EFB"}

WordLetters == AsciiLetters \cup {"_"} \cup OtherWordChars

\* \w of the regex crate: Unicode-aware, letters, digits and the underscore
IsWord(c) == IsDigit(c) \/ c \in WordLetters

\* s[from..to], empty when from > to
Slice(s, from, to) == IF from > to THEN <<>> ELSE SubSeq(s, from, to)

\* the number a run of ASCII digits denotes
RECURSIVE ParseDigits(_)
ParseDigits(s) ==
    IF s = <<>> THEN 0
    ELSE 10 * ParseDigits(Slice(s, 1, Len(s) - 1)) + DigitVal(s[Len(s)])

\* str::parse::<i32>().ok() and str::parse::<u32>().ok() on a run matched by
\* \d{4} or \d{2}: a digit beyond ASCII is an error
ParseInt(s) ==
    IF \A k \in 1..Len(s) : IsAsciiDigit(s[k]) THEN Some(ParseDigits(s)) ELSE None

\* whether pat occurs in s at position i
OccursAt(s, pat, i) ==
    /\ i >= 1
    /\ i + Len(pat) - 1 <= Len(s)
    /\ \A k \in 1..Len(pat) : s[i + k - 1] = pat[k]

Min(S) == CHOOSE x \in S : \A y \in S : x <= y

\* str::split_once(pat): None, or Some(<<before, after>>) at the first occurrence
split_once(s, pat) ==
    LET hits == {i \in 1..Len(s) : OccursAt(s, pat, i)}
    IN  IF hits = {} THEN None
        ELSE LET i == Min(hits)
             IN  Some(<<Slice(s, 1, i - 1), Slice(s, i + Len(pat), Len(s))>>)

\* str::split(sep) for a one-character separator: at least one component
RECURSIVE split(_, _)
split(s, sep) ==
    LET hits == {i \in 1..Len(s) : s[i] = sep}
    IN  IF hits = {} THEN <<s>>
        ELSE LET i == Min(hits)
             IN  <<Slice(s, 1, i - 1)>> \o split(Slice(s, i + 1, Len(s)), sep)

\* char::is_whitespace, the characters str::trim strips: the Unicode property
\* White_Space, all 25 characters of it.  U+000B, the vertical tab, is an
\* ASCII character without an escape and is written as itself.
Whitespace ==
    {"\t", "\n", "", "\f", "\r", " ", "U+0085", "U+00A0", "U+1680",
     "U+2000", "U+2001", "U+2002", "U+2003", "U+2004", "U+2005", "U+2006",
     "U+2007", "U+2008", "U+2009", "U+200A", "U+2028", "U+2029", "U+202F",
     "U+205F", "U+3000"}

\* str::trim
RECURSIVE trim(_)
trim(s) ==
    IF s = <<>> THEN s
    ELSE IF s[1] \in Whitespace THEN trim(Slice(s, 2, Len(s)))
    ELSE IF s[Len(s)] \in Whitespace THEN trim(Slice(s, 1, Len(s) - 1))
    ELSE s

----------------------------------------------------------------------------
(* chrono::NaiveDate *)

IsLeap(y) == (y % 4 = 0 /\ y % 100 # 0) \/ y % 400 = 0

DaysInMonth(y, m) ==
    IF m = 2 THEN (IF IsLeap(y) THEN 29 ELSE 28)
    ELSE IF m \in {4, 6, 9, 11} THEN 30 ELSE 31

Date(y, m, d) == [year |-> y, month |-> m, day |-> d]

\* NaiveDate::from_ymd_opt: None unless (y, m, d) is a calendar date
from_ymd_opt(y, m, d) ==
    IF m \in 1..12 /\ d >= 1 /\ d <= DaysInMonth(y, m) THEN Some(Date(y, m, d))
    ELSE None

\* the derived ordering of NaiveDate is the chronological one
DateLe(a, b) ==
    \/ a.year < b.year
    \/ a.year = b.year /\ a.month < b.month
    \/ a.year = b.year /\ a.month = b.month /\ a.day <= b.day

\* days since 0000-03-01 of a calendar date (years >= 1)
DaysFromCivil(dt) ==
    LET y == IF dt.month <= 2 THEN dt.year - 1 ELSE dt.year
        mp == (dt.month + 9) % 12
        doy == (153 * mp + 2) \div 5 + dt.day - 1
    IN  365 * y + y \div 4 - y \div 100 + y \div 400 + doy

CivilFromDays(z) ==
    LET era == z \div 146097
        doe == z - era * 146097
        yoe == (doe - doe \div 1460 + doe \div 36524 - doe \div 146096) \div 365
        doy == doe - (365 * yoe + yoe \div 4 - yoe \div 100)
        mp == (5 * doy + 2) \div 153
        d == doy - (153 * mp + 2) \div 5 + 1
        m == IF mp < 10 THEN mp + 3 ELSE mp - 9
        y == yoe + era * 400 + (IF m <= 2 THEN 1 ELSE 0)
    IN  Date(y, m, d)

\* today.checked_add_signed(TimeDelta::days(i)).unwrap(), for offsets that
\* stay inside NaiveDate's range
AddDays(dt, i) == CivilFromDays(DaysFromCivil(dt) + i)

\* Display of NaiveDate for years 0..9999: %Y-%m-%d, zero padded
Pad(n, width) ==
    [k \in 1..width |->
        LET p == width - k
            RECURSIVE Pow10(_)
            Pow10(e) == IF e = 0 THEN 1 ELSE 10 * Pow10(e - 1)
        IN  Digits[((n \div Pow10(p)) % 10) + 1]]

FormatDate(dt) == Pad(dt.year, 4) \o <<"-">> \o Pad(dt.month, 2) \o <<"-">> \o Pad(dt.day, 2)

----------------------------------------------------------------------------
(* syntax::parse_agmd *)

Str_start == <<"s", "t", "a", "r", "t">>
Str_due == <<"d", "u", "e">>

\* whether \d{4}-\d{2}-\d{2} matches s at position i
DateShapeAt(s, i) ==
    /\ i >= 1
    /\ i + 9 <= Len(s)
    /\ \A k \in {0, 1, 2, 3, 5, 6, 8, 9} : IsDigit(s[i + k])
    /\ s[i + 4] = "-"
    /\ s[i + 7] = "-"

\* the three groups of the date shape at position i, each parsed: an Option
DateFieldsAt(s, i) ==
    <<ParseInt(Slice(s, i, i + 3)),
      ParseInt(Slice(s, i + 5, i + 6)),
      ParseInt(Slice(s, i + 8, i + 9))>>

\* whether .parse().unwrap() goes through on all three groups
AllParsed(f) == \A k \in 1..3 : IsSome(f[k])

\* Regex (\d{4})-(\d{2})-(\d{2}), unanchored: the leftmost match anywhere in
\* the input, as Some(<<year, month, day>>), or None
BareDateCaptures(s) ==
    LET hits == {i \in 1..Len(s) : DateShapeAt(s, i)}
    IN  IF hits = {} THEN None ELSE Some(DateFieldsAt(s, Min(hits)))

\* whether (\w+)=<date shape> matches s with the key starting at i and the
\* equals sign at j
KeyDateAt(s, i, j) ==
    /\ i < j
    /\ j <= Len(s)
    /\ \A k \in i..(j - 1) : IsWord(s[k])
    /\ s[j] = "="
    /\ DateShapeAt(s, j + 1)

\* Regex (\w+)=(\d{4})-(\d{2})-(\d{2}), unanchored: the leftmost match, as
\* Some(<<key, <<year, month, day>>>>), or None
KeyDateCaptures(s) ==
    LET hits == {i \in 1..Len(s) : \E j \in 1..Len(s) : KeyDateAt(s, i, j)}
    IN  IF hits = {} THEN None
        ELSE LET i == Min(hits)
                 j == CHOOSE j \in 1..Len(s) : KeyDateAt(s, i, j)
             IN  Some(<<Slice(s, i, j - 1), DateFieldsAt(s, j + 1)>>)

Returned(v) == [panicked |-> FALSE, value |-> v]
Panicked == [panicked |-> TRUE, value |-> None]

Agmd(start, due) == [start |-> start, due |-> due]

\* the loop over input.split(";") of parse_agmd: `?` returns None on a
\* component that does not match or whose date is no calendar date, and
\* .parse().unwrap() panics on a group that is no number
RECURSIVE AgmdComponents(_, _, _)
AgmdComponents(components, start, due) ==
    IF components = <<>> THEN Returned(Some(Agmd(start, due)))
    ELSE LET capture == KeyDateCaptures(Head(components))
         IN  IF ~IsSome(capture) THEN Returned(None)
             ELSE IF ~AllParsed(Unwrap(capture)[2]) THEN Panicked
             ELSE LET key == Unwrap(capture)[1]
                      f == Unwrap(capture)[2]
                      date == from_ymd_opt(Unwrap(f[1]), Unwrap(f[2]), Unwrap(f[3]))
                  IN  IF ~IsSome(date) THEN Returned(None)
                      ELSE AgmdComponents(Tail(components),
                                          IF key = Str_start THEN date ELSE start,
                                          IF key = Str_due THEN date ELSE due)

\* parse_agmd: the bare date is looked for first, anywhere in the input;
\* .parse().unwrap() panics on a group that is no number, and
\* from_ymd_opt(..).unwrap() when the date is no calendar date
parse_agmd(input) ==
    LET capture == BareDateCaptures(input)
    IN  IF IsSome(capture)
        THEN IF ~AllParsed(Unwrap(capture)) THEN Panicked
             ELSE LET f == Unwrap(capture)
                      date == from_ymd_opt(Unwrap(f[1]), Unwrap(f[2]), Unwrap(f[3]))
                  IN  IF IsSome(date) THEN Returned(Some(Agmd(date, date)))
                      ELSE Panicked
        ELSE AgmdComponents(split(input, ";"), None, None)

----------------------------------------------------------------------------
(* markdown::VTodo and its Display *)

Str_agmd == <<"a", "g", "m", "d", ":">>

VTodo(checked, text, a) == [checked |-> checked, text |-> text, agmd |-> a]

\* the part written between "<agmd:" and ">"
fmt_agmd(a) ==
    IF ~IsSome(a) THEN <<>>
    ELSE LET start == Unwrap(a).start
             due == Unwrap(a).due
         IN  IF ~IsSome(start) /\ IsSome(due)
                 THEN <<"d", "u", "e", "=">> \o FormatDate(Unwrap(due))
             ELSE IF IsSome(start) /\ ~IsSome(due)
                 THEN <<"s", "t", "a", "r", "t", "=">> \o FormatDate(Unwrap(start))
             ELSE IF IsSome(start) /\ IsSome(due)
                 THEN IF Unwrap(start) = Unwrap(due) THEN FormatDate(Unwrap(start))
                      ELSE <<"s", "t", "a", "r", "t", "=">> \o FormatDate(Unwrap(start))
                           \o <<";", "d", "u", "e", "=">> \o FormatDate(Unwrap(due))
             ELSE <<>>

\* impl Display for VTodo
fmt(t) ==
    <<"-", " ", "[">> \o (IF t.checked THEN <<"x">> ELSE <<" ">>) \o <<"]", " ">>
    \o t.text \o <<" ", "<">> \o Str_agmd \o fmt_agmd(t.agmd) \o <<">">>

\* the annotation body of a rendered record: the rendering ends in the
\* autolink <agmd:BODY>, whose destination is cut after "agmd:" as the
\* extractor cuts every link destination
AnnotationBody(rendered) ==
    LET after == Unwrap(split_once(rendered, Str_agmd))[2]
    IN  Slice(after, 1, Len(after) - 1)

----------------------------------------------------------------------------
(* date_range::parse_date_range *)

Single(i) == [kind |-> "Single", rel |-> i]
Range(d1, d2) == [kind |-> "Range", from |-> d1, to |-> d2]

\* impl Default for DateRangeFormat
DefaultDateRange == Single(0)

Ok(v) == [ok |-> TRUE, value |-> Some(v), error |-> ""]
Err(e) == [ok |-> FALSE, value |-> None, error |-> e]

AllDigits(s) == Len(s) >= 1 /\ \A k \in 1..Len(s) : IsDigit(s[k])

\* the whole of s matches [+-]?\d+
IsSignedInt(s) ==
    \/ AllDigits(s)
    \/ Len(s) >= 2 /\ s[1] \in {"+", "-"} /\ AllDigits(Slice(s, 2, Len(s)))

\* str::parse::<i64>().ok() on a string matching [+-]?\d+: a digit beyond
\* ASCII is an error; the inputs here are far shorter than the 19 digits an
\* i64 overflow needs
ParseI64(s) ==
    LET signed == s[1] \in {"+", "-"}
        digits == IF signed THEN Slice(s, 2, Len(s)) ELSE s
    IN  IF \E k \in 1..Len(digits) : ~IsAsciiDigit(digits[k]) THEN None
        ELSE IF s[1] = "-" THEN Some(0 - ParseDigits(digits))
        ELSE Some(ParseDigits(digits))

\* a regex `.` : any character but the line feed
IsAnyChar(c) == c # "\n"

\* re2 = ^([+-]?\d+)?..([+-]?\d+)?$ matches s with group 1 taking the first
\* a characters (a = 0: group 1 does not take part)
Re2MatchesWith(s, a) ==
    /\ a >= 0
    /\ a + 2 <= Len(s)
    /\ (a = 0 \/ IsSignedInt(Slice(s, 1, a)))
    /\ IsAnyChar(s[a + 1])
    /\ IsAnyChar(s[a + 2])
    /\ (a + 2 = Len(s) \/ IsSignedInt(Slice(s, a + 3, Len(s))))

Max(S) == CHOOSE x \in S : \A y \in S : x >= y

\* re2.captures(input): None, or Some(<<group 1, group 2>>), each group an
\* Option; the greedy optional group 1 takes the longest prefix that lets the
\* whole input match
Re2Captures(s) ==
    LET fits == {a \in 0..Len(s) : Re2MatchesWith(s, a)}
    IN  IF fits = {} THEN None
        ELSE LET a == Max(fits)
             IN  Some(<<IF a = 0 THEN None ELSE Some(Slice(s, 1, a)),
                        IF a + 2 = Len(s) THEN None ELSE Some(Slice(s, a + 3, Len(s)))>>)

\* captures.get(n).and_then(|m| m.as_str().parse::<i64>().ok().map(Relative))
GroupToRelative(g) == IF IsSome(g) THEN ParseI64(Unwrap(g)) ELSE None

parse_date_range(input) ==
    IF IsSignedInt(input)
    THEN IF IsSome(ParseI64(input)) THEN Ok(Single(Unwrap(ParseI64(input))))
         ELSE Err("invalid digit found in string")
    ELSE LET captures == Re2Captures(input)
         IN  IF IsSome(captures)
             THEN Ok(Range(GroupToRelative(Unwrap(captures)[1]),
                           GroupToRelative(Unwrap(captures)[2])))
             ELSE Err("neither single date or range")

----------------------------------------------------------------------------
(* date_range::DateRangeFormat::filter_agmd_intersection *)

\* the closure `absolute`
absolute(now, d) == AddDays(now, d)

\* the arm DateRangeFormat::Single(d), d already absolute
SingleIntersects(d, start, due) ==
    IF ~IsSome(start) /\ ~IsSome(due) THEN FALSE
    ELSE IF ~IsSome(start) THEN DateLe(d, Unwrap(due))
    ELSE IF ~IsSome(due) THEN DateLe(Unwrap(start), d)
    ELSE DateLe(Unwrap(start), d) /\ DateLe(d, Unwrap(due))

\* RangeIntersects with the upper-bound comparison made strict (d2 > start)
RangeIntersectsStrict(d1, d2, start, due) ==
    IF (~IsSome(d1) /\ ~IsSome(d2)) \/ (~IsSome(start) /\ ~IsSome(due)) THEN TRUE
    ELSE IF (~IsSome(d1) /\ ~IsSome(start)) \/ (~IsSome(d2) /\ ~IsSome(due)) THEN TRUE
    ELSE IF \/ ~IsSome(d1) /\ IsSome(d2) /\ IsSome(start) /\ ~IsSome(due)
            \/ ~IsSome(d1) /\ IsSome(d2) /\ IsSome(start) /\ IsSome(due)
            \/ IsSome(d1) /\ IsSome(d2) /\ IsSome(start) /\ ~IsSome(due)
        THEN ~DateLe(Unwrap(d2), Unwrap(start))
    ELSE IF \/ IsSome(d1) /\ ~IsSome(d2) /\ ~IsSome(start) /\ IsSome(due)
            \/ IsSome(d1) /\ ~IsSome(d2) /\ IsSome(start) /\ IsSome(due)
            \/ IsSome(d1) /\ IsSome(d2) /\ ~IsSome(start) /\ IsSome(due)
        THEN DateLe(Unwrap(d1), Unwrap(due))
    ELSE DateLe(Unwrap(start), Unwrap(d2)) /\ DateLe(Unwrap(d1), Unwrap(due))

\* the arm DateRangeFormat::Range(d1, d2), d1 and d2 already absolute: the
\* match arms in the order of the source
RangeIntersects(d1, d2, start, due) ==
    IF (~IsSome(d1) /\ ~IsSome(d2)) \/ (~IsSome(start) /\ ~IsSome(due)) THEN TRUE
    ELSE IF (~IsSome(d1) /\ ~IsSome(start)) \/ (~IsSome(d2) /\ ~IsSome(due)) THEN TRUE
    ELSE IF \/ ~IsSome(d1) /\ IsSome(d2) /\ IsSome(start) /\ ~IsSome(due)
            \/ ~IsSome(d1) /\ IsSome(d2) /\ IsSome(start) /\ IsSome(due)
            \/ IsSome(d1) /\ IsSome(d2) /\ IsSome(start) /\ ~IsSome(due)
        THEN DateLe(Unwrap(start), Unwrap(d2))
    ELSE IF \/ IsSome(d1) /\ ~IsSome(d2) /\ ~IsSome(start) /\ IsSome(due)
            \/ IsSome(d1) /\ ~IsSome(d2) /\ IsSome(start) /\ IsSome(due)
            \/ IsSome(d1) /\ IsSome(d2) /\ ~IsSome(start) /\ IsSome(due)
        THEN DateLe(Unwrap(d1), Unwrap(due))
    ELSE DateLe(Unwrap(start), Unwrap(d2)) /\ DateLe(Unwrap(d1), Unwrap(due))

\* Option::map(absolute)
MapAbsolute(now, o) == IF IsSome(o) THEN Some(absolute(now, Unwrap(o))) ELSE None

filter_agmd_intersection(self, a, now) ==
    IF self.kind = "Single" THEN SingleIntersects(absolute(now, self.rel), a.start, a.due)
    ELSE RangeIntersects(MapAbsolute(now, self.from), MapAbsolute(now, self.to),
                         a.start, a.due)

----------------------------------------------------------------------------
(* markdown::parse_markdown: the handlers, one per match arm *)

\* Position::Item { checked, agmd, text } and Position::AgmdLink, with the
\* same fields so that frames compare
ItemFrame(checked, a, text) ==
    [kind |-> "Item", checked |-> checked, agmd |-> a, text |-> text]
AgmdLinkFrame == [kind |-> "AgmdLink", checked |-> None, agmd |-> None, text |-> <<>>]

Last(st) == st[Len(st)]
Pop(st) == Slice(st, 1, Len(st) - 1)
TopIsItem(st) == st # <<>> /\ Last(st).kind = "Item"
SetLast(st, f) == [st EXCEPT ![Len(st)] = f]

\* Event::Start(Tag::Item)
OnStartItem(st) == Append(st, ItemFrame(None, None, <<>>))

\* Event::TaskListMarker(is_checked): panics unless the top frame is an Item
OnTaskListMarker(st, is_checked) ==
    IF TopIsItem(st)
    THEN [panicked |-> FALSE,
          stack |-> SetLast(st, [Last(st) EXCEPT !.checked = Some(is_checked)])]
    ELSE [panicked |-> TRUE, stack |-> st]

\* Event::Start(Tag::Link { dest_url, .. })
OnStartLink(st, dest_url) ==
    LET cut == split_once(dest_url, Str_agmd)
    IN  IF IsSome(cut) /\ TopIsItem(st)
        THEN Append(SetLast(st, [Last(st) EXCEPT !.agmd = Some(Unwrap(cut)[2])]),
                    AgmdLinkFrame)
        ELSE st

\* Event::End(TagEnd::Link): stack.pop_if(AgmdLink)
OnEndLink(st) ==
    IF st # <<>> /\ Last(st).kind = "AgmdLink" THEN Pop(st) ELSE st

\* Event::Text(cow_str)
OnText(st, cow_str) ==
    IF TopIsItem(st)
    THEN SetLast(st, [Last(st) EXCEPT !.text = @ \o cow_str])
    ELSE st

\* Event::End(TagEnd::Item): pops; panics unless an Item frame was popped;
\* pushes a VTodo when the frame has an annotation and a task marker, and
\* then parse_agmd may panic
OnEndItem(st, tasks) ==
    IF ~TopIsItem(st) THEN [panicked |-> TRUE, stack |-> Pop(st), vtasks |-> tasks]
    ELSE LET frame == Last(st)
         IN  IF IsSome(frame.agmd) /\ IsSome(frame.checked)
             THEN LET outcome == parse_agmd(Unwrap(frame.agmd))
                  IN  IF outcome.panicked
                      THEN [panicked |-> TRUE, stack |-> Pop(st), vtasks |-> tasks]
                      ELSE [panicked |-> FALSE, stack |-> Pop(st),
                            vtasks |-> Append(tasks, VTodo(Unwrap(frame.checked),
                                                           trim(frame.text),
                                                           outcome.value))]
             ELSE [panicked |-> FALSE, stack |-> Pop(st), vtasks |-> tasks]

----------------------------------------------------------------------------
(* Bounds and input alphabets *)

\* the most `;`-separated components of an annotation body
MaxComponents == 2
\* the most characters of a query argument
MaxArgLen == 4
\* the largest day offset of a query, either way
MaxOffset == 10

Str_foo == <<"f", "o", "o">>

Date_A == <<"2", "0", "2", "5", "-", "1", "1", "-", "3", "0">>
Date_B == <<"2", "0", "2", "5", "-", "1", "2", "-", "2", "0">>
\* month 13
Date_BadMonth == <<"2", "0", "2", "5", "-", "1", "3", "-", "0", "1">>
\* 30 February
Date_BadDay == <<"2", "0", "2", "5", "-", "0", "2", "-", "3", "0">>
\* 3 December, the 3 an Arabic-Indic digit
Date_OtherDigit == <<"2", "0", "2", "5", "-", "1", "2", "-", "0", "U+0663">>

\* the most content events of a document: item starts, task markers, link
\* starts and text runs (the events that close an element are not counted,
\* so that every document can be closed)
MaxEvents == 6

\* link destinations: a plain link, an annotation with start and due, one
\* whose date is no calendar date, and one with an empty body behind a
\* prefix.  Each can be the destination of an inline link ([label](dest)) and
\* of an autolink (<dest>).
LinkDests == {<<"h", "t", ":", "x">>,
              Str_agmd \o Str_start \o <<"=">> \o Date_A \o <<";">> \o Str_due \o <<"=">> \o Date_B,
              Str_agmd \o Date_BadMonth,
              <<"x">> \o Str_agmd}

\* text runs: one that begins with a space, one that ends with a form feed
\* and an ideographic space
TextRuns == {<<" ", "a">>, <<"b", "\f", "U+3000">>}

KeyTexts == {<<>>, Str_start \o <<"=">>, Str_due \o <<"=">>, Str_foo \o <<"=">>, <<"x">>}
DateTexts == {<<>>, Date_A, Date_B, Date_BadMonth, Date_BadDay, Date_OtherDigit}
ComponentTexts == {k \o d : k \in KeyTexts, d \in DateTexts}

\* the bodies of exactly n components, joined by ";"
RECURSIVE BodiesOf(_)
BodiesOf(n) ==
    IF n = 1 THEN ComponentTexts
    ELSE {b \o <<";">> \o c : b \in BodiesOf(n - 1), c \in ComponentTexts}

AgmdBodies == UNION {BodiesOf(n) : n \in 1..MaxComponents}

ArgChars == {"+", "-", "1", "3", "U+0663", ".", "x", "y"}

RECURSIVE ArgsOf(_)
ArgsOf(n) ==
    IF n = 0 THEN {<<>>}
    ELSE {Append(a, c) : a \in ArgsOf(n - 1), c \in ArgChars}

Args == UNION {ArgsOf(n) : n \in 0..MaxArgLen}

Offsets == (0 - MaxOffset)..MaxOffset
OptionOf(S) == {None} \cup {Some(x) : x \in S}
Queries == {Single(i) : i \in Offsets}
           \cup {Range(d1, d2) : d1 \in OptionOf(Offsets), d2 \in OptionOf(Offsets)}

\* Local::now().date_naive(): mid month, and five days before a leap day
Todays == {Date(2025, 6, 15), Date(2024, 2, 25)}
ScheduleDates == {Date(2025, 6, 10), Date(2025, 6, 15), Date(2025, 6, 20),
                  Date(2024, 2, 29), Date(2024, 3, 1)}
Agmds == {Agmd(s, d) : s \in OptionOf(ScheduleDates), d \in OptionOf(ScheduleDates)}

TaskTexts == {<<"D", "o", "n", "e">>, <<"a", " ", "b">>}
VTodos == {VTodo(c, t, a) : c \in BOOLEAN, t \in TaskTexts, a \in OptionOf(Agmds)}

----------------------------------------------------------------------------
(* The pure functions as state machines: the input is drawn by the initial  *)
(* state, one step applies the function.                                    *)

IdleExtractor ==
    /\ stack = <<>>
    /\ vtasks = <<>>
    /\ pc = "idle"
    /\ doc = <<>>
    /\ nitems = 0
    /\ nevents = 0
    /\ origin = <<>>
    /\ seen = <<>>

IdleAgmd == raw = <<>> /\ parsed = None /\ vtodo = None /\ shown = None
IdleQuery == arg = <<>> /\ date_range = None
IdleFilter ==
    /\ today = Date(2025, 6, 15)
    /\ query = DefaultDateRange
    /\ agmd = Agmd(None, None)
    /\ has_intersection = None

\* parse_agmd on an annotation body
InitAgmd ==
    /\ raw \in AgmdBodies
    /\ parsed = None
    /\ vtodo = None
    /\ shown = None
    /\ IdleExtractor /\ IdleQuery /\ IdleFilter

ParseAgmd ==
    /\ parsed = None
    /\ parsed' = Some(parse_agmd(raw))
    /\ UNCHANGED <<raw, vtodo, shown, extractorVars, queryVars, filterVars>>

NextAgmd == ParseAgmd
SpecAgmd == InitAgmd /\ [][NextAgmd]_vars

\* a VTodo is printed (main, println!("{}", vtodo)) and the annotation in the
\* printed line is parsed again
InitDisplay ==
    /\ vtodo \in {Some(t) : t \in VTodos}
    /\ shown = None
    /\ raw = <<>>
    /\ parsed = None
    /\ IdleExtractor /\ IdleQuery /\ IdleFilter

Display ==
    /\ IsSome(vtodo)
    /\ shown = None
    /\ shown' = Some(fmt(Unwrap(vtodo)))
    /\ UNCHANGED <<raw, parsed, vtodo, extractorVars, queryVars, filterVars>>

Reparse ==
    /\ IsSome(shown)
    /\ parsed = None
    /\ raw' = AnnotationBody(Unwrap(shown))
    /\ parsed' = Some(parse_agmd(raw'))
    /\ UNCHANGED <<vtodo, shown, extractorVars, queryVars, filterVars>>

NextDisplay == Display \/ Reparse
SpecDisplay == InitDisplay /\ [][NextDisplay]_vars

\* parse_date_range on a command-line argument
InitQuery ==
    /\ arg \in Args
    /\ date_range = None
    /\ IdleExtractor /\ IdleAgmd /\ IdleFilter

ParseDateRange ==
    /\ date_range = None
    /\ date_range' = Some(parse_date_range(arg))
    /\ UNCHANGED <<arg, extractorVars, agmdVars, filterVars>>

NextQuery == ParseDateRange
SpecQuery == InitQuery /\ [][NextQuery]_vars

\* filter_agmd_intersection on a query, a schedule and a day
InitFilter ==
    /\ today \in Todays
    /\ query \in Queries
    /\ agmd \in Agmds
    /\ has_intersection = None
    /\ IdleExtractor /\ IdleAgmd /\ IdleQuery

Filter ==
    /\ has_intersection = None
    /\ has_intersection' = Some(filter_agmd_intersection(query, agmd, today))
    /\ UNCHANGED <<today, query, agmd, extractorVars, agmdVars, queryVars>>

NextFilter == Filter
SpecFilter == InitFilter /\ [][NextFilter]_vars

----------------------------------------------------------------------------
(* parse_markdown as a state machine: one step per event of the tokenizer.  *)
(* The events are those pulldown-cmark gives for a document: items nest in  *)
(* items, a link lies in an item or at the top level and holds only inline  *)
(* content, a task marker is the first thing of its item.  An inline link   *)
(* holds no inline link, but its label may hold an autolink, which the      *)
(* tokenizer gives as a link of its own inside the open one: Start(Link)    *)
(* with the destination, one Text with the destination, End(Link).          *)
(* `doc` and `seen` record the document, not the parser: they never read    *)
(* `stack`.                                                                 *)

\* an open element of the document; `pending` is the text an autolink has
\* still to give
DocItem(id) ==
    [kind |-> "Item", id |-> id, annotation |-> FALSE, autolink |-> FALSE,
     pending |-> <<>>]
DocLink(annotation, autolink, pending) ==
    [kind |-> "Link", id |-> 0, annotation |-> annotation, autolink |-> autolink,
     pending |-> pending]

Fresh == [marker |-> FALSE, link |-> FALSE, text |-> <<>>, closed |-> FALSE,
          fresh |-> TRUE]

\* the place in d of the innermost open item, 0 at the top level
ItemIndex(d) ==
    LET items == {i \in 1..Len(d) : d[i].kind = "Item"}
    IN  IF items = {} THEN 0 ELSE CHOOSE i \in items : \A j \in items : j <= i

\* the item the innermost open element belongs to, 0 at the top level
EnclosingItem(d) == IF ItemIndex(d) = 0 THEN 0 ELSE d[ItemIndex(d)].id

\* the position lies in the label of an open annotation link, directly or in
\* an autolink of that label
InAnnotationLabel(d) == \E i \in (ItemIndex(d) + 1)..Len(d) : d[i].annotation
InLink(d) == d # <<>> /\ Last(d).kind = "Link"
InAutolink(d) == InLink(d) /\ Last(d).autolink

Touch(sn, id) == IF id = 0 THEN sn ELSE [sn EXCEPT ![id].fresh = FALSE]

Init ==
    /\ stack = <<>>
    /\ vtasks = <<>>
    /\ pc = "running"
    /\ doc = <<>>
    /\ nitems = 0
    /\ nevents = 0
    /\ origin = <<>>
    /\ seen = <<>>
    /\ IdleAgmd /\ IdleQuery /\ IdleFilter

StartItem ==
    /\ pc = "running"
    /\ nevents < MaxEvents
    /\ ~InLink(doc)
    /\ stack' = OnStartItem(stack)
    /\ nitems' = nitems + 1
    /\ nevents' = nevents + 1
    /\ doc' = Append(doc, DocItem(nitems + 1))
    /\ seen' = Append(Touch(seen, EnclosingItem(doc)), Fresh)
    /\ UNCHANGED <<vtasks, pc, origin, agmdVars, queryVars, filterVars>>

TaskListMarker ==
    /\ pc = "running"
    /\ nevents < MaxEvents
    /\ doc # <<>>
    /\ Last(doc).kind = "Item"
    /\ seen[Last(doc).id].fresh
    /\ nevents' = nevents + 1
    /\ \E is_checked \in BOOLEAN :
        LET r == OnTaskListMarker(stack, is_checked)
        IN  /\ stack' = r.stack
            /\ pc' = IF r.panicked THEN "panicked" ELSE pc
    /\ seen' = [seen EXCEPT ![Last(doc).id].marker = TRUE, ![Last(doc).id].fresh = FALSE]
    /\ UNCHANGED <<vtasks, doc, nitems, origin, agmdVars, queryVars, filterVars>>

\* an inline link opens outside every link; an autolink opens outside every
\* link or in the label of an inline link
StartLink ==
    /\ pc = "running"
    /\ nevents < MaxEvents
    /\ ~InAutolink(doc)
    /\ \E dest_url \in LinkDests, autolink \in BOOLEAN :
        LET annotation == IsSome(split_once(dest_url, Str_agmd))
            id == EnclosingItem(doc)
        IN  /\ InLink(doc) => autolink
            /\ stack' = OnStartLink(stack, dest_url)
            /\ doc' = Append(doc, DocLink(annotation, autolink,
                                          IF autolink THEN dest_url ELSE <<>>))
            /\ seen' = IF id # 0 /\ annotation
                       THEN [seen EXCEPT ![id].link = TRUE, ![id].fresh = FALSE]
                       ELSE Touch(seen, id)
    /\ nevents' = nevents + 1
    /\ UNCHANGED <<vtasks, pc, nitems, origin, agmdVars, queryVars, filterVars>>

EndLink ==
    /\ pc = "running"
    /\ InLink(doc)
    /\ Last(doc).pending = <<>>
    /\ stack' = OnEndLink(stack)
    /\ doc' = Pop(doc)
    /\ UNCHANGED <<vtasks, pc, nitems, nevents, origin, seen,
                   agmdVars, queryVars, filterVars>>

\* a text run of the document, or the destination of the autolink just
\* opened (which comes with the autolink and is not counted as an event of
\* its own)
Text ==
    /\ pc = "running"
    /\ IF InAutolink(doc) THEN Last(doc).pending # <<>> ELSE nevents < MaxEvents
    /\ \E cow_str \in TextRuns \cup LinkDests :
        LET id == EnclosingItem(doc)
        IN  /\ IF InAutolink(doc) THEN cow_str = Last(doc).pending
                                  ELSE cow_str \in TextRuns
            /\ stack' = OnText(stack, cow_str)
            /\ seen' = IF id = 0 THEN seen
                       ELSE IF InAnnotationLabel(doc)
                       THEN [seen EXCEPT ![id].fresh = FALSE]
                       ELSE [seen EXCEPT ![id].text = @ \o cow_str, ![id].fresh = FALSE]
    /\ doc' = IF InAutolink(doc) THEN SetLast(doc, [Last(doc) EXCEPT !.pending = <<>>])
                                 ELSE doc
    /\ nevents' = IF InAutolink(doc) THEN nevents ELSE nevents + 1
    /\ UNCHANGED <<vtasks, pc, nitems, origin, agmdVars, queryVars, filterVars>>

EndItem ==
    /\ pc = "running"
    /\ doc # <<>>
    /\ Last(doc).kind = "Item"
    /\ LET r == OnEndItem(stack, vtasks)
       IN  /\ stack' = r.stack
           /\ vtasks' = r.vtasks
           /\ pc' = IF r.panicked THEN "panicked" ELSE pc
           /\ origin' = IF Len(r.vtasks) > Len(vtasks)
                        THEN Append(origin, Last(doc).id) ELSE origin
    /\ seen' = [seen EXCEPT ![Last(doc).id].closed = TRUE]
    /\ doc' = Pop(doc)
    /\ UNCHANGED <<nitems, nevents, agmdVars, queryVars, filterVars>>

\* any other event (a paragraph, emphasis, inline code, ...): the `_ => {}` arm
OtherEvent ==
    /\ pc = "running"
    /\ UNCHANGED vars

\* the event stream ends with every element closed; parse_markdown returns vtasks
Return ==
    /\ pc = "running"
    /\ doc = <<>>
    /\ pc' = "done"
    /\ UNCHANGED <<stack, vtasks, doc, nitems, nevents, origin, seen,
                   agmdVars, queryVars, filterVars>>

Next ==
    \/ StartItem
    \/ TaskListMarker
    \/ StartLink
    \/ EndLink
    \/ Text
    \/ EndItem
    \/ OtherEvent
    \/ Return

Spec == Init /\ [][Next]_vars

----------------------------------------------------------------------------
(* Claims about parse_markdown (Spec) *)

\* C3: the records are in source order: of two emitted records, the one whose
\* item started earlier in the event stream comes earlier in the output, so a
\* tracked parent precedes the tracked tasks nested in it.
C3_SourceOrder ==
    \A j \in 1..Len(origin) : \A k \in 1..Len(origin) :
        j < k => origin[j] < origin[k]

\* C7: the text of every emitted record is the trimmed concatenation, in
\* order, of the text runs the document gave the record's own item: the label
\* of its annotation link is left out, and so is the text of the items nested
\* in it and of the items around it.
C7_OwnText ==
    /\ Len(origin) = Len(vtasks)
    /\ \A k \in 1..Len(vtasks) : vtasks[k].text = trim(seen[origin[k]].text)

TrackedItems == {id \in 1..nitems : seen[id].closed /\ seen[id].marker /\ seen[id].link}

\* C8: an item end emits exactly one record when the item has both a task
\* marker and an annotation link, and nothing otherwise: the number of records
\* is the number of closed items that received both.
C8_RecordPerTrackedItem == Len(vtasks) = Cardinality(TrackedItems)

----------------------------------------------------------------------------
(* Claims about parse_agmd (SpecAgmd) *)

\* the calendar date the ASCII digits of the date shape at position i give,
\* if they give one
CalendarDateAt(s, i) ==
    LET f == DateFieldsAt(s, i)
    IN  IF AllParsed(f) THEN from_ymd_opt(Unwrap(f[1]), Unwrap(f[2]), Unwrap(f[3]))
        ELSE None

\* the whole of c is key=YYYY-MM-DD with an identifier key and a calendar date
IsKeyValueComponent(c) ==
    /\ Len(c) >= 12
    /\ KeyDateAt(c, 1, Len(c) - 10)
    /\ IsSome(CalendarDateAt(c, Len(c) - 9))

KeyOf(c) == Slice(c, 1, Len(c) - 11)
DateOf(c) == Unwrap(CalendarDateAt(c, Len(c) - 9))

KeyValueForm(s) == \A k \in 1..Len(split(s, ";")) : IsKeyValueComponent(split(s, ";")[k])

\* the date the body gives for a key: that of the last component with the
\* key, absent when no component has it
DeclaredDate(s, key) ==
    LET cs == split(s, ";")
        at == {k \in 1..Len(cs) : KeyOf(cs[k]) = key}
    IN  IF at = {} THEN None ELSE Some(DateOf(cs[Max(at)]))

\* C1: for a body in key=value form, parse_agmd returns the interval whose
\* start is the date of the `start` component and whose due is the date of
\* the `due` component, a side whose key does not appear being absent.
C1_KeyValueSides ==
    (IsSome(parsed) /\ KeyValueForm(raw)) =>
        Unwrap(parsed) = Returned(Some(Agmd(DeclaredDate(raw, Str_start),
                                            DeclaredDate(raw, Str_due))))

HasNonCalendarDate(s) ==
    \E i \in 1..Len(s) :
        /\ DateShapeAt(s, i)
        /\ AllParsed(DateFieldsAt(s, i))
        /\ ~IsSome(CalendarDateAt(s, i))

\* C4: whenever the body holds a YYYY-MM-DD shaped date that is no calendar
\* date, parse_agmd returns None as an ordinary value: no panic, no partial
\* result.
C4_InvalidDateIsNone ==
    (IsSome(parsed) /\ HasNonCalendarDate(raw)) => Unwrap(parsed) = Returned(None)

----------------------------------------------------------------------------
(* Claims about the Display form (SpecDisplay) *)

HasSide(a) == IsSome(a) /\ (IsSome(Unwrap(a).start) \/ IsSome(Unwrap(a).due))

\* C6: rendering a record and parsing the text after `agmd:` of the rendered
\* line again returns the schedule the record carried (start only, due only,
\* both different, both equal).
C6_DisplayRoundTrip ==
    (IsSome(parsed) /\ IsSome(vtodo) /\ HasSide(Unwrap(vtodo).agmd)) =>
        Unwrap(parsed) = Returned(Unwrap(vtodo).agmd)

----------------------------------------------------------------------------
(* Claims about parse_date_range (SpecQuery) *)

\* s is an integer a reader writes: a sign or none, then the digits 0 to 9
IsInteger(s) == IsSignedInt(s) /\ IsSome(ParseI64(s))

\* the whole of s is an optionally signed integer, or left? ".." right? with
\* two literal dots between optionally signed integers
InQueryLanguage(s) ==
    \/ IsInteger(s)
    \/ \E a \in 0..Len(s) :
           /\ a + 2 <= Len(s)
           /\ (a = 0 \/ IsInteger(Slice(s, 1, a)))
           /\ s[a + 1] = "."
           /\ s[a + 2] = "."
           /\ (a + 2 = Len(s) \/ IsInteger(Slice(s, a + 3, Len(s))))

\* C5: parse_date_range returns an error for every input that is not, in its
\* entirety, an optionally signed integer or a range with the two literal
\* dots.
C5_MalformedQueryRejected ==
    (IsSome(date_range) /\ ~InQueryLanguage(arg)) => ~Unwrap(date_range).ok

----------------------------------------------------------------------------
(* Claims about filter_agmd_intersection (SpecFilter) *)

\* C2: a schedule with both start and due absent intersects every query,
\* Single or Range, on every day.
C2_OpenScheduleIntersects ==
    (IsSome(has_intersection) /\ agmd = Agmd(None, None)) => Unwrap(has_intersection)

FullyOpenQuery(q) == q.kind = "Range" /\ ~IsSome(q.from) /\ ~IsSome(q.to)

StartAfterDue(a) ==
    /\ IsSome(a.start)
    /\ IsSome(a.due)
    /\ DaysFromCivil(Unwrap(a.due)) < DaysFromCivil(Unwrap(a.start))

\* C9: a schedule whose start is after its due is an empty interval: no query
\* that is not fully open intersects it.
C9_ReversedScheduleEmpty ==
    (IsSome(has_intersection) /\ StartAfterDue(agmd) /\ ~FullyOpenQuery(query)) =>
        ~Unwrap(has_intersection)

\* the day number of an optional query offset / an optional schedule date
OffsetDay(o) == DaysFromCivil(today) + Unwrap(o)
DateDay(o) == DaysFromCivil(Unwrap(o))

\* C10: a Range query does not intersect exactly when its upper bound and the
\* schedule's start are both present and the upper bound is before the start,
\* or its lower bound and the schedule's due are both present and the due is
\* before the lower bound; in every other of the sixteen present/absent cases
\* it intersects.
C10_RangeTruthTable ==
    (IsSome(has_intersection) /\ query.kind = "Range") =>
        (Unwrap(has_intersection) <=>
            ~ \/ IsSome(query.to) /\ IsSome(agmd.start)
                   /\ OffsetDay(query.to) < DateDay(agmd.start)
              \/ IsSome(query.from) /\ IsSome(agmd.due)
                   /\ DateDay(agmd.due) < OffsetDay(query.from))

\* a half-open Range query met a closed schedule and did not intersect it
C10_Witness ==
    /\ IsSome(has_intersection)
    /\ ~Unwrap(has_intersection)
    /\ query.kind = "Range"
    /\ ~IsSome(query.from)
    /\ IsSome(query.to)
    /\ IsSome(agmd.start)
    /\ IsSome(agmd.due)

====
